---- MODULE Spec2Model ----
(***************************************************************************)
(* Model of the paper-trading bot in src/main.py: the indicator library    *)
(* (sma, rsi, calculate_volatility), the decision engine (decide_action)   *)
(* and the paper execution (execute_paper_trade) over the in-memory        *)
(* portfolio.                                                              *)
(*                                                                         *)
(* Number representation (the program computes in decimal.Decimal):        *)
(*   - crypto amounts are integers counting 1e-8 units (every amount the   *)
(*     program adds or subtracts is quantized to 0.00000001);              *)
(*   - USD amounts are integers counting 10^-UsdDecimals dollars; a BUY    *)
(*     multiplies by 0.2, which adds one decimal digit, so UsdDecimals is  *)
(*     2 + MaxBuys and every USD amount is exact;                          *)
(*   - prices are integers counting 100 dollars;                           *)
(*   - closing prices are integers; an indicator value is the exact        *)
(*     rational <<numerator, denominator>> (denominator > 0), and <<>>     *)
(*     stands for None.                                                    *)
(* quantize() rounds half-even (the default context of decimal).  The      *)
(* amounts of the runs have far fewer than the 28 significant digits of    *)
(* the default context, so no other rounding changes a comparison.         *)
(*                                                                         *)
(* call holds the arguments, the portfolio before and the returned value   *)
(* of the call that has just been made; Return drops them, as the locals   *)
(* of a call are dropped, before the next call.  sell_run counts the SELL  *)
(* calls made in succession.                                               *)
(***************************************************************************)
EXTENDS Integers, Sequences, FiniteSets, TLC

VARIABLES usd_balance, crypto_balance, current_position, entry_price,
          trade_count, total_trades, call, sell_run

vars == <<usd_balance, crypto_balance, current_position, entry_price,
          trade_count, total_trades, call, sell_run>>

(* ------------------------------ bounds --------------------------------- *)

\* executed BUYs per run (fixes the number of USD decimals that are kept)
MaxBuys == 2

\* executed trades per run
MaxTrades == 4

\* largest USD balance (in dollars) a run is followed to
MaxUsd == 2000

\* longest of the short closing series the indicators are called with
MaxLen == 4

\* largest closing price in them
MaxClose == 3

\* largest period they are called with
MaxPeriod == 3

\* how many pairs of the watchlist a scan goes through
NumScanPairs == 2

(* --------------------------- representation ---------------------------- *)

UsdDecimals == 2 + MaxBuys

UsdScale == 10 ^ UsdDecimals

None == <<>>

NoPosition == "None"

Min(a, b) == IF a < b THEN a ELSE b

\* Decimal.quantize under ROUND_HALF_EVEN: the integer nearest to q + r/b,
\* where 0 <= r < b.
RoundHalfEven(q, r, b) ==
    IF 2 * r < b THEN q
    ELSE IF 2 * r > b THEN q + 1
    ELSE IF q % 2 = 0 THEN q ELSE q + 1

\* <<quotient, remainder>> of (a * 10^k) by b, one decimal digit at a time.
RECURSIVE DivDigits(_, _, _, _)
DivDigits(q, r, b, k) ==
    IF k = 0 THEN <<q, r>>
    ELSE DivDigits(q * 10 + ((r * 10) \div b), (r * 10) % b, b, k - 1)

\* <<quotient, remainder>> of (a * b) by m, one decimal digit of a at a time.
RECURSIVE MulDigits(_, _, _)
MulDigits(a, b, m) ==
    IF a = 0 THEN <<0, 0>>
    ELSE LET prev == MulDigits(a \div 10, b, m)
             t    == 10 * prev[2] + (a % 10) * b
         IN  <<10 * prev[1] + (t \div m), t % m>>

(* ------------------------------ inputs --------------------------------- *)

WATCHLIST == <<"BTC-USD", "ETH-USD", "SOL-USD", "AVAX-USD", "LINK-USD", "ADA-USD">>

\* The program only stores and prints a pair, so two pairs stand for the six.
Pairs == {WATCHLIST[1], WATCHLIST[2]}

\* SIM_START_BALANCE_USD: the default 1000, or a configured 12 (in dollars)
StartBalances == {1000, 12}

\* Prices, counting 100 dollars: 39200, 40000 and 41200 dollars (-2 % and
\* +3 % around 40000) and 500 million dollars (20 % of 1000 dollars buys less
\* than 1e-6, 20 % of 12 dollars rounds to zero).
Prices == {392, 400, 412, 5000000}

\* Closing series of n samples: the first lowN samples are 1, the others
\* start at base and alternate a rise of up with a fall of down.
Zigzag(n, base, up, down, lowN) ==
    [i \in 1..n |-> IF i <= lowN THEN 1
                    ELSE base + up * (i \div 2) - down * ((i - 1) \div 2)]

SeriesList ==
    << Zigzag(8, 100, 3, 2, 0),      \*  1: too short for every indicator
       Zigzag(14, 100, 3, 2, 0),     \*  2: SMA(9) only
       Zigzag(20, 100, 3, 2, 0),     \*  3: all but SMA(21)
       Zigzag(21, 100, 3, 2, 0),     \*  4: uptrend, RSI 60, volatile
       Zigzag(22, 2000, 3, 2, 0),    \*  5: uptrend, RSI 60, volatility < 1.5
       Zigzag(22, 1000, 2, 3, 0),    \*  6: downtrend, RSI 40
       Zigzag(22, 1000, 0, 1, 0),    \*  7: downtrend, no rise: RSI 0
       Zigzag(21, 100, 0, 1, 6),     \*  8: jump then slow fall: uptrend, RSI 0
       Zigzag(22, 100, 5, 1, 0),     \*  9: uptrend, RSI 83.3
       Zigzag(22, 100, 13, 7, 0),    \* 10: uptrend, RSI exactly 65
       Zigzag(21, 100, 0, 0, 0),     \* 11: flat
       <<201, 199, 201, 200, 199, 200, 199, 200, 202, 199, 199, 199, 202, 201,
         199, 201, 199, 200, 199, 202, 200>> \* 12: volatility exactly 1.5
    >>

SeriesIds == DOMAIN SeriesList

(* ---------------------------- indicators ------------------------------- *)

RECURSIVE SumLast(_, _)
\* sum(values[-k:]) for k <= len(values)
SumLast(values, k) ==
    IF k = 0 THEN 0 ELSE values[Len(values) - k + 1] + SumLast(values, k - 1)

RECURSIVE MaxLast(_, _)
MaxLast(values, k) ==
    LET v == values[Len(values) - k + 1]
    IN  IF k = 1 THEN v
        ELSE LET m == MaxLast(values, k - 1) IN IF v > m THEN v ELSE m

RECURSIVE MinLast(_, _)
MinLast(values, k) ==
    LET v == values[Len(values) - k + 1]
    IN  IF k = 1 THEN v
        ELSE LET m == MinLast(values, k - 1) IN IF v < m THEN v ELSE m

\* comparisons of a rational <<n, d>>, d > 0, with an integer k or a rational
Defined(x) == x # None

RatLt(x, y) == x[1] * y[2] < y[1] * x[2]

RatLe(x, y) == x[1] * y[2] <= y[1] * x[2]

\* Python truthiness of an Optional[Decimal]: None and Decimal(0) are falsy
Truthy(x) == Defined(x) /\ x[1] # 0

\* the mean of the samples there are when there are fewer than period
smaOfAvailable(values, period) ==
    IF Len(values) = 0 THEN None
    ELSE <<SumLast(values, Min(period, Len(values))), Min(period, Len(values))>>

sma(values, period) ==
    IF Len(values) < period THEN None
    ELSE <<SumLast(values, period), period>>

\* gains and losses of rsi: <<sum(gains), len(gains), sum(losses), len(losses)>>
\* over diff = values[-i] - values[-i-1], i = 1..period
RECURSIVE GainsLosses(_, _)
GainsLosses(values, i) ==
    IF i = 0 THEN <<0, 0, 0, 0>>
    ELSE LET acc  == GainsLosses(values, i - 1)
             n    == Len(values)
             diff == values[n - i + 1] - values[n - i]
         IN  IF diff > 0
             THEN <<acc[1] + diff, acc[2] + 1, acc[3], acc[4]>>
             ELSE <<acc[1], acc[2], acc[3] - diff, acc[4] + 1>>

\* 100 * rs in place of 100 - 100 / (1 + rs)
rsiOfRs(values, period) ==
    IF Len(values) <= period THEN None
    ELSE LET gl == GainsLosses(values, period)
         IN  IF gl[3] = 0 THEN <<100, 1>> ELSE <<100 * gl[1], gl[3]>>

\* avg_gain / avg_loss = sum(gains) / sum(losses) (the two divisions by
\* period cancel), so 100 - 100 / (1 + rs) = 100 * gains / (gains + losses).
rsi(values, period) ==
    IF Len(values) <= period THEN None
    ELSE LET gl == GainsLosses(values, period)
             avg_gain == IF gl[2] > 0 THEN <<gl[1], period>> ELSE <<0, 1>>
             avg_loss == IF gl[4] > 0 THEN <<gl[3], period>> ELSE <<0, 1>>
         IN  IF gl[2] = 0 /\ gl[4] = 0 THEN <<50, 1>>
             ELSE IF avg_loss[1] = 0 THEN <<100, 1>>
             ELSE <<100 * avg_gain[1], avg_gain[1] + avg_loss[1]>>

\* a volatility that asks for one sample more than period
calculate_volatilityOfMore(closes, period) ==
    IF Len(closes) <= period THEN None
    ELSE LET high == MaxLast(closes, period)
             low  == MinLast(closes, period)
         IN  <<(high - low) * period * 100, SumLast(closes, period)>>

\* ((high - low) / avg) * 100 with avg = sum / period
calculate_volatility(closes, period) ==
    IF Len(closes) < period THEN None
    ELSE LET high == MaxLast(closes, period)
             low  == MinLast(closes, period)
         IN  <<(high - low) * period * 100, SumLast(closes, period)>>

(* -------------------------- portfolio state ---------------------------- *)

\* the portfolio globals as one record
Portfolio ==
    [usd |-> usd_balance, crypto |-> crypto_balance, pos |-> current_position,
     entry |-> entry_price, tc |-> trade_count, tt |-> total_trades]

\* Decimal("0.000001"), counting 1e-8: the balance from which decide_action
\* sees a position, and below which a SELL zeroes what is left
DustThreshold == 100

\* Decimal("0.00001"), counting 1e-8: the balance a SELL needs more than
SellThreshold == 1000

\* the 10 dollars a BUY needs more than, counting 10^-UsdDecimals dollars
MinUsd == 10 * UsdScale

(* --------------------------- decision engine --------------------------- *)

\* profit_pct = ((price - entry_price) / entry_price) * 100
ProfitPct(price, entry) == <<(price - entry[1]) * 100, entry[1]>>

has_usd_only(s) == s.usd > MinUsd /\ s.crypto < DustThreshold

has_crypto(s) == s.crypto >= DustThreshold

\* the four indicators decide_action computes from closes
Indicators(closes) ==
    [short_ma    |-> sma(closes, 9),
     long_ma     |-> sma(closes, 21),
     current_rsi |-> rsi(closes, 14),
     volatility  |-> calculate_volatility(closes, 20)]

\* Indicators of every input series
IndicatorsOf == [i \in SeriesIds |-> Indicators(SeriesList[i])]

\* decide_action(price, closes) on portfolio s, ind = Indicators(closes)
decide_action(s, price, ind) ==
    LET short_ma    == ind.short_ma
        long_ma     == ind.long_ma
        current_rsi == ind.current_rsi
        volatility  == ind.volatility
    IN  IF ~Truthy(short_ma) \/ ~Truthy(long_ma) \/ ~Truthy(current_rsi)
           \/ ~Defined(volatility)
        THEN "HOLD"
        ELSE IF /\ has_usd_only(s)
                /\ RatLt(long_ma, short_ma)
                /\ RatLt(current_rsi, <<65, 1>>)
                /\ RatLe(<<15, 10>>, volatility)
        THEN "BUY"
        ELSE IF /\ has_crypto(s)
                /\ \/ /\ Defined(s.entry)
                      /\ \/ RatLe(ProfitPct(price, s.entry), <<-2, 1>>)
                         \/ RatLe(<<3, 1>>, ProfitPct(price, s.entry))
                   \/ RatLt(short_ma, long_ma)
                   \/ RatLt(<<65, 1>>, current_rsi)
        THEN "SELL"
        ELSE "HOLD"

(* --------------------------- paper execution --------------------------- *)

\* a fixed stake of 200 dollars instead of 20 % of the balance
UsdToSpendFixed(usd) == 200 * UsdScale

\* usd_to_spend = usd_balance * Decimal("0.2")
UsdToSpend(usd) == (usd * 2) \div 10

\* the quotient truncated to 8 decimals instead of rounded
CryptoToBuyTruncated(usd_to_spend, price) ==
    LET whole == <<usd_to_spend \div price, usd_to_spend % price>>
    IN  DivDigits(whole[1], whole[2], price, 6 - UsdDecimals)[1]

\* the quotient rounded up to 8 decimals instead of to the nearest
CryptoToBuyCeiling(usd_to_spend, price) ==
    LET whole == <<usd_to_spend \div price, usd_to_spend % price>>
        qr    == DivDigits(whole[1], whole[2], price, 6 - UsdDecimals)
    IN  IF qr[2] = 0 THEN qr[1] ELSE qr[1] + 1

\* crypto_to_buy = (usd_to_spend / price).quantize(Decimal("0.00000001"))
CryptoToBuy(usd_to_spend, price) ==
    LET whole == <<usd_to_spend \div price, usd_to_spend % price>>
        qr    == DivDigits(whole[1], whole[2], price, 6 - UsdDecimals)
    IN  RoundHalfEven(qr[1], qr[2], price)

\* the whole balance instead of half of it
CryptoToSellAll(crypto) == crypto

\* crypto_to_sell = (crypto_balance * Decimal("0.5")).quantize(Decimal("0.00000001"))
CryptoToSell(crypto) == RoundHalfEven(crypto \div 2, crypto % 2, 2)

\* usd_gained = (crypto_to_sell * price).quantize(Decimal("0.01")), in cents
UsdGained(crypto_to_sell, price) ==
    LET qr == MulDigits(crypto_to_sell, price, 10000)
    IN  RoundHalfEven(qr[1], qr[2], 10000)

\* what a SELL refuses to sell taken for dust
IsDustAtSellThreshold(left) == left < SellThreshold

\* crypto_balance < Decimal("0.000001") after a SELL
IsDust(left) == left < DustThreshold

\* an execute_paper_trade whose BUY leaves entry_price as it was
execute_paper_trade_entry_kept(s, action, price, pair) ==
    LET usd_to_spend   == UsdToSpend(s.usd)
        crypto_to_buy  == CryptoToBuy(usd_to_spend, price)
        crypto_to_sell == CryptoToSell(s.crypto)
        usd_gained     == UsdGained(crypto_to_sell, price)
        left           == s.crypto - crypto_to_sell
    IN  IF action = "BUY" /\ s.usd > MinUsd /\ crypto_to_buy > 0
        THEN [usd    |-> s.usd - usd_to_spend,
              crypto |-> s.crypto + crypto_to_buy,
              pos    |-> pair,
              entry  |-> s.entry,
              tc     |-> s.tc + 1,
              tt     |-> [s.tt EXCEPT !.BUY = @ + 1],
              result |-> <<"BUY", crypto_to_buy>>]
        ELSE IF action = "SELL" /\ s.crypto > SellThreshold /\ crypto_to_sell > 0
        THEN [usd    |-> s.usd + usd_gained * (UsdScale \div 100),
              crypto |-> IF IsDust(left) THEN 0 ELSE left,
              pos    |-> IF IsDust(left) THEN NoPosition ELSE s.pos,
              entry  |-> IF IsDust(left) THEN None ELSE s.entry,
              tc     |-> s.tc + 1,
              tt     |-> [s.tt EXCEPT !.SELL = @ + 1],
              result |-> <<"SELL", crypto_to_sell>>]
        ELSE [usd |-> s.usd, crypto |-> s.crypto, pos |-> s.pos,
              entry |-> s.entry, tc |-> s.tc, tt |-> s.tt, result |-> None]

\* The portfolio after execute_paper_trade(action, price, pair), with the
\* returned pair as result: None for (None, None), else <<action, amount>>.
execute_paper_trade(s, action, price, pair) ==
    LET usd_to_spend   == UsdToSpend(s.usd)
        crypto_to_buy  == CryptoToBuy(usd_to_spend, price)
        crypto_to_sell == CryptoToSell(s.crypto)
        usd_gained     == UsdGained(crypto_to_sell, price)
        left           == s.crypto - crypto_to_sell
    IN  IF action = "BUY" /\ s.usd > MinUsd /\ crypto_to_buy > 0
        THEN [usd    |-> s.usd - usd_to_spend,
              crypto |-> s.crypto + crypto_to_buy,
              pos    |-> pair,
              entry  |-> <<price>>,
              tc     |-> s.tc + 1,
              tt     |-> [s.tt EXCEPT !.BUY = @ + 1],
              result |-> <<"BUY", crypto_to_buy>>]
        ELSE IF action = "SELL" /\ s.crypto > SellThreshold /\ crypto_to_sell > 0
        THEN [usd    |-> s.usd + usd_gained * (UsdScale \div 100),
              crypto |-> IF IsDust(left) THEN 0 ELSE left,
              pos    |-> IF IsDust(left) THEN NoPosition ELSE s.pos,
              entry  |-> IF IsDust(left) THEN None ELSE s.entry,
              tc     |-> s.tc + 1,
              tt     |-> [s.tt EXCEPT !.SELL = @ + 1],
              result |-> <<"SELL", crypto_to_sell>>]
        ELSE [usd |-> s.usd, crypto |-> s.crypto, pos |-> s.pos,
              entry |-> s.entry, tc |-> s.tc, tt |-> s.tt, result |-> None]

(* ------------------------------ actions -------------------------------- *)

Actions == {"BUY", "SELL", "HOLD"}

\* The runs are followed while the numbers stay within the bounds.
WithinBounds(s, action, price) ==
    /\ action = "BUY" /\ s.usd > MinUsd =>
          /\ s.tt.BUY < MaxBuys
          /\ s.tc < MaxTrades
    /\ action = "SELL" /\ s.crypto > SellThreshold =>
          /\ s.tc < MaxTrades
          /\ ((s.crypto \div 20000) + 1) * price <= MaxUsd * 100
          /\ s.usd + UsdGained(CryptoToSell(s.crypto), price) * (UsdScale \div 100)
                <= MaxUsd * UsdScale

\* consecutive SELL calls: how many (3 for more than two) and the balance
\* before the first of them
NextSellRun(action, crypto) ==
    IF action # "SELL" THEN [n |-> 0, start |-> 0]
    ELSE IF sell_run.n = 0 THEN [n |-> 1, start |-> crypto]
    ELSE [n |-> Min(sell_run.n + 1, 3), start |-> sell_run.start]

\* the state after one call of execute_paper_trade; call records the call:
\* its arguments, the portfolio before it and what it returned
Apply(op, decided, action, price, pair, series) ==
    LET s == Portfolio
        t == execute_paper_trade(s, action, price, pair)
    IN  /\ usd_balance' = t.usd
        /\ crypto_balance' = t.crypto
        /\ current_position' = t.pos
        /\ entry_price' = t.entry
        /\ trade_count' = t.tc
        /\ total_trades' = t.tt
        /\ call' = [op |-> op, action |-> action, price |-> price, pair |-> pair,
                    series |-> series, decided |-> decided, pre |-> s,
                    result |-> t.result]
        /\ sell_run' = NextSellRun(action, s.crypto)

\* one call of execute_paper_trade, followed while the numbers stay within
\* the bounds
Execute(op, decided, action, price, pair, series) ==
    /\ call.op = "idle"
    /\ WithinBounds(Portfolio, action, price)
    /\ Apply(op, decided, action, price, pair, series)

\* a direct call execute_paper_trade(action, price, pair)
Trade(action, price, pair) ==
    Execute("trade", "none", action, price, pair, 0)

\* one tick for a pair: decide_action(price, closes), then
\* execute_paper_trade of what it decided
Tick(pair, price, series) ==
    LET action == decide_action(Portfolio, price, IndicatorsOf[series])
    IN  Execute("tick", action, action, price, pair, series)

\* no call in progress
IdleCall == [op |-> "idle"]

\* the call has returned and its arguments and result are dropped
Return ==
    /\ call.op # "idle"
    /\ call' = IdleCall
    /\ UNCHANGED <<usd_balance, crypto_balance, current_position, entry_price,
                   trade_count, total_trades, sell_run>>

Init ==
    /\ usd_balance \in {b * UsdScale : b \in StartBalances}
    /\ crypto_balance = 0
    /\ current_position = NoPosition
    /\ entry_price = None
    /\ trade_count = 0
    /\ total_trades = [BUY |-> 0, SELL |-> 0]
    /\ call = IdleCall
    /\ sell_run = [n |-> 0, start |-> 0]

\* a call decide_action(price, closes): the portfolio is only read
Decide(price, series) ==
    /\ call.op = "idle"
    /\ call' = [op |-> "decide", action |-> "none", price |-> price,
                pair |-> "none", series |-> series,
                decided |-> decide_action(Portfolio, price, IndicatorsOf[series]),
                pre |-> Portfolio, result |-> None]
    /\ UNCHANGED <<usd_balance, crypto_balance, current_position, entry_price,
                   trade_count, total_trades, sell_run>>

TradeStep == \E action \in Actions, price \in Prices, pair \in Pairs :
                Trade(action, price, pair)

TickStep == \E pair \in Pairs, price \in Prices, series \in SeriesIds :
                Tick(pair, price, series)

DecideStep == \E price \in Prices, series \in SeriesIds : Decide(price, series)

Next == TradeStep \/ Return

\* any sequence of calls of execute_paper_trade
Spec == Init /\ [][Next]_vars

NextTick == TickStep \/ Return

\* any sequence of ticks
SpecTick == Init /\ [][NextTick]_vars

NextDecide == DecideStep \/ TradeStep \/ Return

\* decide_action called in every portfolio state that calls of
\* execute_paper_trade lead to
SpecDecide == Init /\ [][NextDecide]_vars

(* ------------------------------- exit ---------------------------------- *)

\* the prices of the market while a position is built and then exited
ExitPrices == {400}

\* the USD amounts of a SELL stay within MaxUsd
WithinUsd(s, price) ==
    s.crypto > SellThreshold =>
        /\ ((s.crypto \div 20000) + 1) * price <= MaxUsd * 100
        /\ s.usd + UsdGained(CryptoToSell(s.crypto), price) * (UsdScale \div 100)
              <= MaxUsd * UsdScale

\* a BUY while no SELL has been called yet
EntryStep ==
    /\ sell_run.n = 0
    /\ \E price \in ExitPrices, pair \in Pairs : Trade("BUY", price, pair)

\* a SELL passed to execute_paper_trade, whatever the number of trades so far
ExitStep ==
    \E price \in ExitPrices, pair \in Pairs :
        /\ call.op = "idle"
        /\ WithinUsd(Portfolio, price)
        /\ Apply("trade", "none", "SELL", price, pair, 0)

NextExit == EntryStep \/ ExitStep \/ Return

\* BUYs, and from the first SELL on only SELLs; the loop never stops, so a
\* SELL that can be called is called and a call returns
SpecExit ==
    /\ Init
    /\ [][NextExit]_vars
    /\ WF_vars(ExitStep)
    /\ WF_vars(Return)

(* ------------------------- indicator calls ----------------------------- *)

\* every series of up to MaxLen closes between 0 and MaxClose
ShortSeries == UNION {[1..n -> 0..MaxClose] : n \in 0..MaxLen}

\* the periods decide_action and scan_best_opportunity use
ProgramPeriods == {9, 14, 20, 21}

IndicatorNames == {"sma", "rsi", "calculate_volatility"}

\* the value fn(values, period) returns
IndicatorValue(fn, values, period) ==
    IF fn = "sma" THEN sma(values, period)
    ELSE IF fn = "rsi" THEN rsi(values, period)
    ELSE calculate_volatility(values, period)

\* a call fn(values, period) of one of the three indicators; a price is
\* positive, and rsi, which only takes differences, is also called with 0
IndicatorCall(fn, values, period) ==
    /\ call.op = "idle"
    /\ fn # "rsi" => \A i \in DOMAIN values : values[i] > 0
    /\ call' = [op |-> "indicator", fn |-> fn, values |-> values,
                period |-> period,
                value |-> IndicatorValue(fn, values, period)]
    /\ UNCHANGED <<usd_balance, crypto_balance, current_position, entry_price,
                   trade_count, total_trades, sell_run>>

IndicatorStep ==
    /\ call.op = "idle"
    /\ \/ \E fn \in IndicatorNames, values \in ShortSeries, period \in 1..MaxPeriod :
             IndicatorCall(fn, values, period)
       \/ \E fn \in IndicatorNames, i \in SeriesIds, period \in ProgramPeriods :
             IndicatorCall(fn, SeriesList[i], period)

NextIndicator == IndicatorStep \/ Return

\* any sequence of calls of sma, rsi and calculate_volatility
SpecIndicator == Init /\ [][NextIndicator]_vars

(* ------------------------------- scan ---------------------------------- *)

RECURSIVE GCD(_, _)
GCD(a, b) == IF b = 0 THEN a ELSE GCD(b, a % b)

\* the fraction n / d, d > 0, in lowest terms
Rat(n, d) ==
    LET g == GCD(IF n < 0 THEN -n ELSE n, d)
    IN  <<n \div g, d \div g>>

RatAdd(x, y) ==
    LET g == GCD(x[2], y[2])
    IN  Rat(x[1] * (y[2] \div g) + y[1] * (x[2] \div g), (x[2] \div g) * y[2])

RatSub(x, y) == RatAdd(x, <<-y[1], y[2]>>)

\* x / y for y > 0
RatDiv(x, y) ==
    LET a == Rat(x[1], y[1])
        b == Rat(y[2], x[2])
    IN  Rat(a[1] * b[1], a[2] * b[2])

\* x * k and x / k for an integer k > 0
RatTimes(x, k) == LET b == Rat(k, x[2]) IN Rat(x[1] * b[1], b[2])

RatOver(x, k) == LET a == Rat(x[1], k) IN Rat(a[1], a[2] * x[2])

\* x < y, compared by integer parts and then by the inverted remainders
RECURSIVE RatLess(_, _)
RatLess(x, y) ==
    LET qx == x[1] \div x[2]
        qy == y[1] \div y[2]
        rx == x[1] % x[2]
        ry == y[1] % y[2]
    IN  IF qx # qy THEN qx < qy
        ELSE IF ry = 0 THEN FALSE
        ELSE IF rx = 0 THEN TRUE
        ELSE RatLess(<<y[2], ry>>, <<x[2], rx>>)

\* the pairs a scan goes through, in the order of the watchlist
ScanList == SubSeq(WATCHLIST, 1, NumScanPairs)

ScanIds == 1..NumScanPairs

ScanPrices == {392, 412}

\* what the two fetches of one pair give: get_recent_candles raises,
\* get_latest_price raises, or closes and a price
Fetches ==
    {[status |-> "candles_error"], [status |-> "price_error"]}
        \cup [status : {"ok"}, series : SeriesIds, price : ScanPrices]

\* trend_strength + rsi_score / 10
OpportunityScore(short_ma, long_ma, current_rsi) ==
    LET trend_strength == RatTimes(RatDiv(RatSub(short_ma, long_ma), long_ma), 100)
        rsi_score      == RatSub(<<60, 1>>, current_rsi)
    IN  RatAdd(trend_strength, RatOver(rsi_score, 10))

\* the score of each series of SeriesList whose indicators are not None
ScoreOf ==
    [i \in SeriesIds |->
        LET ind == IndicatorsOf[i]
        IN  IF Defined(ind.short_ma) /\ Defined(ind.long_ma) /\ Defined(ind.current_rsi)
            THEN OpportunityScore(ind.short_ma, ind.long_ma, ind.current_rsi)
            ELSE None]

\* the body of the loop for one pair: opportunities after it
ScanPair(opportunities, pair, fetch) ==
    IF fetch.status # "ok" THEN opportunities
    ELSE LET ind == IndicatorsOf[fetch.series]
         IN  IF \/ ~Truthy(ind.short_ma)
                \/ ~Truthy(ind.long_ma)
                \/ ~Truthy(ind.current_rsi)
             THEN opportunities
             ELSE Append(opportunities,
                         [pair |-> pair, price |-> fetch.price,
                          closes |-> fetch.series,
                          score |-> ScoreOf[fetch.series]])

\* the loop over the first k pairs: the opportunities found and the pairs
\* whose candles were asked for
RECURSIVE ScanLoop(_, _, _)
ScanLoop(pairs, fetches, k) ==
    IF k = 0 THEN [opportunities |-> <<>>, requested |-> <<>>]
    ELSE LET before == ScanLoop(pairs, fetches, k - 1)
         IN  [opportunities |->
                  ScanPair(before.opportunities, pairs[k], fetches[k]),
              requested |-> Append(before.requested, pairs[k])]

\* opportunities.sort(key = score, reverse = True)[0] among the first k: the
\* sort is stable, so of two equal scores the earlier stays first
RECURSIVE BestOf(_, _)
BestOf(opportunities, k) ==
    IF k = 1 THEN 1
    ELSE LET b == BestOf(opportunities, k - 1)
         IN  IF RatLess(opportunities[b].score, opportunities[k].score)
             THEN k ELSE b

\* a scan of the pairs with what their fetches give
ScanOver(pairs, fetches) ==
    LET loop == ScanLoop(pairs, fetches, Len(pairs))
        opportunities == loop.opportunities
    IN  [requested |-> loop.requested,
         best |-> IF opportunities = <<>> THEN None
                  ELSE opportunities[BestOf(opportunities, Len(opportunities))]]

\* the pairs before the first one whose fetch fails
RECURSIVE UntilError(_, _)
UntilError(fetched, k) ==
    IF k > Len(fetched) THEN Len(fetched)
    ELSE IF fetched[k].status # "ok" THEN k - 1
    ELSE UntilError(fetched, k + 1)

\* a scan whose try is around the loop: the first failure ends it
scan_to_first_error(fetched) ==
    LET n == UntilError(fetched, 1)
    IN  IF n < Len(fetched)
        THEN [requested |-> SubSeq(ScanList, 1, n + 1), best |-> None]
        ELSE ScanOver(ScanList, fetched)

\* scan_best_opportunity() when the fetches of the pairs give fetched
scan_best_opportunity(fetched) == ScanOver(ScanList, fetched)

\* a call scan_best_opportunity(): the portfolio is not touched
Scan(fetched) ==
    /\ call.op = "idle"
    /\ call' = [op |-> "scan", fetched |-> fetched,
                result |-> scan_best_opportunity(fetched)]
    /\ UNCHANGED <<usd_balance, crypto_balance, current_position, entry_price,
                   trade_count, total_trades, sell_run>>

ScanStep ==
    /\ call.op = "idle"
    /\ \E fetched \in [ScanIds -> Fetches] : Scan(fetched)

NextScan == ScanStep \/ Return

\* any sequence of scans
SpecScan == Init /\ [][NextScan]_vars

(* ---------------------------- loop with scan --------------------------- *)

\* one tick of the loop: scan all pairs, pick the best, decide on its price
\* and closes, execute what was decided for that pair; no action when the
\* scan returns none
LoopTick(fetched) ==
    LET best == scan_best_opportunity(fetched).best
    IN  IF best = None
        THEN /\ call.op = "idle"
             /\ call' = [op |-> "loop", action |-> "none", price |-> 0,
                         pair |-> "none", series |-> 0, decided |-> "none",
                         pre |-> Portfolio, result |-> None]
             /\ UNCHANGED <<usd_balance, crypto_balance, current_position,
                            entry_price, trade_count, total_trades, sell_run>>
        ELSE LET action == decide_action(Portfolio, best.price,
                                         IndicatorsOf[best.closes])
             IN  Execute("loop", action, action, best.price, best.pair,
                         best.closes)

\* the closes the pairs have in the loop: too few samples, an uptrend, a
\* downtrend, a downtrend with RSI 0 and an uptrend with RSI above 65
LoopSeriesIds == {1, 4, 6, 7, 9}

LoopFetches == {f \in Fetches : f.status = "ok" => f.series \in LoopSeriesIds}

LoopStep ==
    /\ call.op = "idle"
    /\ \E fetched \in [ScanIds -> LoopFetches] : LoopTick(fetched)

NextLoop == LoopStep \/ Return

\* any sequence of ticks of the loop
SpecLoop == Init /\ [][NextLoop]_vars

(* ------------------------------- claims -------------------------------- *)

\* the last call was a call of execute_paper_trade (direct or in a tick)
Executed == call.op \in {"trade", "tick"}

Abs(x) == IF x < 0 THEN -x ELSE x

\* C1: after any sequence of execute_paper_trade calls from the initial
\* portfolio, usd_balance >= 0 and crypto_balance >= 0.
C1_BalancesNonNegative == usd_balance >= 0 /\ crypto_balance >= 0

\* C1 witness: BUYs and SELLs have executed and a balance of both kinds is left
C1_Witness ==
    /\ total_trades.BUY > 0 /\ total_trades.SELL > 1
    /\ crypto_balance > 0 /\ usd_balance > 0

\* C4: a BUY never changes the portfolio when usd_balance <= 10; a BUY
\* executes exactly when usd_balance > 10 and the amount does not round to
\* zero, and then crypto_balance grows by (0.2 * usd_balance) / price rounded
\* to 8 decimals, usd_balance becomes 0.8 of what it was, entry_price becomes
\* price and current_position becomes the pair.
C4_BuyEffect ==
    Executed /\ call.action = "BUY" =>
        LET pre    == call.pre
            spend  == pre.usd - usd_balance
            bought == crypto_balance - pre.crypto
            \* twice the distance of bought from (0.2 * usd) / price, in 1e-8 / price
            off    == 2 * Abs(bought * call.price
                              - ((pre.usd * 2) \div 10) * (10 ^ (6 - UsdDecimals)))
        IN  /\ pre.usd <= MinUsd => Portfolio = pre /\ call.result = None
            /\ call.result = None => Portfolio = pre
            /\ call.result # None =>
                  /\ pre.usd > MinUsd
                  /\ call.result = <<"BUY", bought>>
                  /\ bought > 0
                  /\ off <= call.price
                  /\ 5 * spend = pre.usd
                  /\ entry_price = <<call.price>>
                  /\ current_position = call.pair
            \* not executed with more than 10 dollars: the amount rounded to 0
            /\ pre.usd > MinUsd /\ call.result = None => off <= call.price

\* C4 witness: the BUY of the example, 1000 dollars becoming 800
C4_Witness ==
    /\ Executed /\ call.action = "BUY" /\ call.result # None
    /\ call.pre.usd = 1000 * UsdScale
    /\ usd_balance = 800 * UsdScale
    /\ crypto_balance = 500000

\* C5: a SELL never changes the portfolio when crypto_balance <= 0.00001;
\* a SELL that executes sells the 8-decimal-rounded half, and if what is left
\* is below 1e-6 then crypto_balance is 0 and current_position and
\* entry_price are cleared, otherwise they are left as they were.
C5_SellEffect ==
    Executed /\ call.action = "SELL" =>
        LET pre == call.pre
        IN  /\ pre.crypto <= 1000 => Portfolio = pre /\ call.result = None
            /\ call.result # None =>
                  LET sold == call.result[2]
                      left == pre.crypto - sold
                  IN  /\ call.result[1] = "SELL"
                      /\ Abs(2 * sold - pre.crypto) <= 1
                      /\ IF left < 100
                         THEN /\ crypto_balance = 0
                              /\ current_position = NoPosition
                              /\ entry_price = None
                         ELSE /\ crypto_balance = left
                              /\ current_position = pre.pos
                              /\ entry_price = pre.entry

\* C5 witness: a SELL has executed and one has been refused
C5_Witness ==
    /\ Executed /\ call.action = "SELL" /\ call.result = None
    /\ call.pre.crypto > 0 /\ total_trades.SELL > 0
    /\ current_position # NoPosition /\ entry_price # None

\* C10: when the preconditions of the requested action fail (BUY with
\* usd_balance <= 10, BUY whose amount rounds to zero, SELL with
\* crypto_balance <= 0.00001, or HOLD), execute_paper_trade returns
\* (None, None) and leaves the six portfolio variables unchanged.
C10_NoOpFrame ==
    Executed =>
        LET pre == call.pre
            \* 2 * 0.2 * usd <= price * 1e-8: the amount rounds (half-even) to 0
            roundsToZero ==
                2 * ((pre.usd * 2) \div 10) * (10 ^ (6 - UsdDecimals)) <= call.price
        IN  (\/ call.action = "HOLD"
             \/ call.action = "BUY" /\ pre.usd <= MinUsd
             \/ call.action = "BUY" /\ roundsToZero
             \/ call.action = "SELL" /\ pre.crypto <= 1000)
            => /\ call.result = None
               /\ Portfolio = pre

\* C10 witness: a BUY with more than 10 dollars whose amount rounds to zero
C10_Witness ==
    /\ Executed /\ call.action = "BUY"
    /\ call.pre.usd > MinUsd
    /\ call.result = None
    /\ trade_count > 0

\* C9 as stated: for every nonzero crypto_balance c, two SELL calls in
\* succession with no BUY in between leave crypto_balance at 25 % of c up to
\* the rounding of each half (4 * balance within 3e-8 of c), never negative.
C9_Original ==
    sell_run.n = 2 /\ sell_run.start > 0 =>
        /\ crypto_balance >= 0
        /\ Abs(4 * crypto_balance - sell_run.start) <= 3

\* C9 amended: for c > 0.00002 both SELLs execute and leave 25 % of c up to
\* the rounding of each half; for 0.00001 < c <= 0.00002 only the first one
\* executes and half of c is left; for 0 < c <= 0.00001 neither executes and
\* c is left; the balance is never negative.
C9_TwoSells ==
    sell_run.n = 2 /\ sell_run.start > 0 =>
        /\ crypto_balance >= 0
        /\ sell_run.start > 2000 =>
              Abs(4 * crypto_balance - sell_run.start) <= 3
        /\ sell_run.start > 1000 /\ sell_run.start <= 2000 =>
              Abs(2 * crypto_balance - sell_run.start) <= 1
        /\ sell_run.start <= 1000 => crypto_balance = sell_run.start

\* C9 witness: two SELLs in succession have both executed, from an odd
\* number of 1e-8 units (so that a half was rounded)
C9_Witness ==
    /\ sell_run.n = 2 /\ sell_run.start > 2000 /\ sell_run.start % 2 = 1
    /\ Executed /\ call.action = "SELL" /\ call.result # None
    /\ total_trades.SELL >= 2

\* the last call was a call of decide_action (direct or in a tick)
Decided == call.op \in {"decide", "tick"}

\* the closing series of the last call and its indicators
CallCloses == SeriesList[call.series]

CallInd == IndicatorsOf[call.series]

AllDefined(ind) ==
    /\ Defined(ind.short_ma) /\ Defined(ind.long_ma)
    /\ Defined(ind.current_rsi) /\ Defined(ind.volatility)

\* the exit condition of the claim C2, for portfolio s at price
ExitCondition(s, price, ind) ==
    \/ Defined(s.entry) /\ (price - s.entry[1]) * 100 <= -2 * s.entry[1]
    \/ Defined(s.entry) /\ (price - s.entry[1]) * 100 >= 3 * s.entry[1]
    \/ ind.short_ma[1] * ind.long_ma[2] < ind.long_ma[1] * ind.short_ma[2]
    \/ ind.current_rsi[1] > 65 * ind.current_rsi[2]

\* the entry condition of the claim C3
EntryCondition(ind) ==
    /\ ind.short_ma[1] * ind.long_ma[2] > ind.long_ma[1] * ind.short_ma[2]
    /\ ind.current_rsi[1] < 65 * ind.current_rsi[2]
    /\ 10 * ind.volatility[1] >= 15 * ind.volatility[2]

\* C2: with crypto_balance >= 1e-6 and all four indicators having a value
\* (0 included), decide_action returns SELL iff (entry_price defined and
\* profit% <= -2) or (entry_price defined and profit% >= 3) or
\* shortMA < longMA or RSI > 65, and HOLD otherwise.
C2_SellIff ==
    Decided /\ call.pre.crypto >= 100 /\ AllDefined(CallInd) =>
        IF ExitCondition(call.pre, call.price, CallInd)
        THEN call.decided = "SELL"
        ELSE call.decided = "HOLD"

\* C3: with usd_balance > 10, crypto_balance < 1e-6 and all four indicators
\* having a value, decide_action returns BUY iff shortMA > longMA and
\* RSI < 65 and volatility >= 1.5; and it never returns BUY in another state.
C3_BuyIff ==
    Decided =>
        LET usdOnly == call.pre.usd > 10 * UsdScale /\ call.pre.crypto < 100
        IN  /\ usdOnly /\ AllDefined(CallInd) =>
                (call.decided = "BUY" <=> EntryCondition(CallInd))
            /\ call.decided = "BUY" => usdOnly

\* C8: decide_action returns HOLD whenever the closing series is too short
\* for one of SMA(9), SMA(21), RSI(14) (more than 14 samples) or
\* volatility(20), whatever the portfolio and the price.
C8_HoldWhenUndefined ==
    Decided /\ (\/ Len(CallCloses) < 9
                \/ Len(CallCloses) < 21
                \/ Len(CallCloses) <= 14
                \/ Len(CallCloses) < 20)
        => call.decided = "HOLD"

\* C8 witness: only SMA(21) is undefined, in a portfolio that would buy and
\* in one that would sell
C8_Witness ==
    /\ Decided /\ Len(CallCloses) = 20 /\ call.decided = "HOLD"
    /\ ~Defined(CallInd.long_ma) /\ Defined(CallInd.short_ma)
    /\ Defined(CallInd.current_rsi) /\ Defined(CallInd.volatility)
    /\ call.pre.crypto >= 100 /\ Defined(call.pre.entry)
    /\ (call.price - call.pre.entry[1]) * 100 >= 3 * call.pre.entry[1]

\* C6: in every state that ticks lead to, entry_price is defined iff
\* crypto_balance reaches the dust threshold 1e-6.
C6_EntryIffAboveDust ==
    (entry_price # None) <=> (crypto_balance >= 100)

\* C7: a BUY for a pair executes only when crypto_balance is 0 or
\* current_position is already that pair.
C7_OnePosition ==
    call.op = "tick" /\ call.action = "BUY" /\ call.result # None =>
        \/ call.pre.crypto = 0
        \/ call.pre.pos = call.pair

\* the last call was a call of rsi with enough samples for a value
RsiCalled == call.op = "indicator" /\ call.fn = "rsi" /\ Len(call.values) > call.period

\* the last call.period differences of call.values
CallDiffs ==
    [i \in 1..call.period |->
        call.values[Len(call.values) - i + 1] - call.values[Len(call.values) - i]]

\* C11: rsi returns exactly 50 when the last period differences are all
\* zero, and exactly 100 when the average loss is zero and the average gain
\* is positive.
C11_Rsi50And100 ==
    RsiCalled =>
        /\ (\A i \in 1..call.period : CallDiffs[i] = 0)
              => call.value[1] = 50 * call.value[2]
        /\ (/\ \A i \in 1..call.period : CallDiffs[i] >= 0
            /\ \E i \in 1..call.period : CallDiffs[i] > 0)
              => call.value[1] = 100 * call.value[2]

\* the last call was a call of one of the indicators
IndicatorCalled == call.op = "indicator"

\* C12 as stated: each of sma, rsi and calculate_volatility returns None
\* if and only if the series has fewer than period samples.
C12_NoneIffFewerThanPeriod ==
    IndicatorCalled => (call.value = None <=> Len(call.values) < call.period)

\* C12: sma and calculate_volatility return None if and only if the series
\* has fewer than period samples; rsi, which takes period differences,
\* returns None if and only if it has fewer than period + 1 samples.
C12_NoneIffTooShort ==
    IndicatorCalled =>
        (call.value = None <=>
            Len(call.values) < (IF call.fn = "rsi" THEN call.period + 1
                                                   ELSE call.period))

\* calculate_volatility returned a value for a series of exactly period samples
C12_Witness ==
    /\ IndicatorCalled
    /\ call.fn = "calculate_volatility"
    /\ Len(call.values) = call.period
    /\ call.value # None

\* C15: for a series of non-negative closes with enough samples, the value
\* rsi returns is in [0, 100].
C15_RsiInRange ==
    RsiCalled =>
        /\ call.value # None
        /\ call.value[2] > 0
        /\ 0 <= call.value[1]
        /\ call.value[1] <= 100 * call.value[2]

\* rsi returned a value strictly between 0 and 100, from gains and losses
C15_Witness ==
    /\ RsiCalled
    /\ 0 < call.value[1]
    /\ call.value[1] < 100 * call.value[2]

\* the last call was a scan
ScanCalled == call.op = "scan"

\* the fetch of pair i succeeded and its series is long enough for SMA(9),
\* SMA(21) and RSI(14)
Sufficient(i) ==
    /\ call.fetched[i].status = "ok"
    /\ ScoreOf[call.fetched[i].series] # None

\* C13: scan_best_opportunity returns the pair with the highest score among
\* the pairs whose fetch succeeded and whose series is long enough for
\* SMA(9), SMA(21) and RSI(14), and none if and only if there is no such
\* pair; no pair with sufficient data is dropped for the value of an
\* indicator.
C13_BestOfSufficient ==
    ScanCalled =>
        /\ call.result.best = None <=> ~ \E i \in ScanIds : Sufficient(i)
        /\ call.result.best # None =>
              \E i \in ScanIds :
                  /\ Sufficient(i)
                  /\ call.result.best.pair = ScanList[i]
                  /\ call.result.best.price = call.fetched[i].price
                  /\ call.result.best.closes = call.fetched[i].series
                  /\ call.result.best.score = ScoreOf[call.fetched[i].series]
                  /\ \A j \in ScanIds :
                        Sufficient(j) =>
                            ~RatLess(ScoreOf[call.fetched[i].series],
                                     ScoreOf[call.fetched[j].series])

\* the numbers of the pairs whose two fetches succeeded, in watchlist order
OkIds == SelectSeq([i \in ScanIds |-> i], LAMBDA i : call.fetched[i].status = "ok")

\* C14: a fetch failure for any subset of the pairs never aborts the scan:
\* the candles of every pair are asked for, the result is that of a scan of
\* the other pairs alone, and it is none when every pair fails.
C14_FailuresSkipped ==
    ScanCalled =>
        /\ call.result.requested = ScanList
        /\ call.result.best =
              ScanOver([k \in 1..Len(OkIds) |-> ScanList[OkIds[k]]],
                       [k \in 1..Len(OkIds) |-> call.fetched[OkIds[k]]]).best
        /\ OkIds = <<>> => call.result.best = None

\* the fetch of the first pair failed and the scan returned a later pair
C14_Witness ==
    /\ ScanCalled
    /\ call.fetched[1].status # "ok"
    /\ call.result.best # None
    /\ call.result.best.pair = ScanList[2]

\* C17: whenever decide_action returns SELL, execute_paper_trade called
\* with SELL in the same state performs a sale: its result is not None and
\* crypto_balance strictly decreases.
C17_SellDecidedSells ==
    /\ call.op = "decide"
    /\ call.decided = "SELL"
    /\ WithinBounds(call.pre, "SELL", call.price)
    => \A pair \in Pairs :
          LET t == execute_paper_trade(call.pre, "SELL", call.price, pair)
          IN  /\ t.result # None
              /\ t.crypto < call.pre.crypto

\* C19: in every state reached by calls of execute_paper_trade, entry_price
\* is defined if and only if current_position is, and trade_count is
\* total_trades[BUY] + total_trades[SELL].
C19_EntryWithPosition ==
    /\ entry_price # None <=> current_position # NoPosition
    /\ trade_count = total_trades.BUY + total_trades.SELL

\* a SELL has just executed on a position a BUY opened
C19_Witness ==
    /\ call.op = "trade"
    /\ call.action = "SELL"
    /\ call.result # None
    /\ total_trades.BUY > 0
    /\ total_trades.SELL > 0
    /\ current_position # NoPosition
    /\ entry_price # None

\* C16: from a state with crypto_balance >= 0.000001, when every action
\* from then on is a SELL passed to execute_paper_trade, the portfolio
\* eventually has crypto_balance = 0 with current_position and entry_price
\* cleared.
C16_FullExit ==
    (sell_run.n > 0 /\ crypto_balance >= DustThreshold)
        ~> (/\ crypto_balance = 0
            /\ current_position = NoPosition
            /\ entry_price = None)

\* C18: in the loop with the scan, a SELL executes only for the pair equal
\* to current_position.
C18_SellOfHeldPair ==
    call.op = "loop" /\ call.action = "SELL" /\ call.result # None =>
        call.pair = call.pre.pos

====
